---- MODULE Spec2Model ----
(***************************************************************************)
(* Model of the AI summariser: the Streamlit entry point (app.py) with its *)
(* Hugging Face / Gemini fallback orchestrator, and the command-line entry *)
(* point (text_summariser.py).                                             *)
(*                                                                         *)
(* A Python string is a sequence of tokens.  A token is one character      *)
(* ("a", " ", "\n") or a fixed phrase of a message the program builds      *)
(* ("Deepgram error", ...).  len(text.split()), text.strip(),              *)
(* text.startswith(p) and (p in text) are computed on those sequences.     *)
(*                                                                         *)
(* app.py never reads its three keys before it calls a service; a service  *)
(* answers only a request that carries a key, and a call made without one  *)
(* ends in its failure branch.  The session history list of app.py is      *)
(* appended to and displayed only; no operation reads it and it is left    *)
(* out of the state.  The counters (hfPosts, gemCalls, dgCalls, ...) and   *)
(* hfLast, produced, dgFailed, doc record what one request did.            *)
(***************************************************************************)
EXTENDS Integers, Sequences, FiniteSets, TLC

\* ------------------------------------------------------------------ bounds
MaxSmall == 1
MaxPad == 1

\* ------------------------------------------------------- program constants
retries == 3
delay == 2
MinWordsHF == 5
MinWordsGemini == 20

\* ------------------------------------------------------------ Python strings
IsSpace(c) == c \in {" ", "\n"}

\* len(text.split())
WordCount(s) ==
    Cardinality({i \in 1..Len(s) : ~IsSpace(s[i]) /\ (i = 1 \/ IsSpace(s[i - 1]))})

\* text.strip()
Strip(s) ==
    LET keep == {i \in 1..Len(s) : ~IsSpace(s[i])}
    IN  IF keep = {} THEN <<>>
        ELSE LET lo == CHOOSE i \in keep : \A j \in keep : i <= j
                 hi == CHOOSE i \in keep : \A j \in keep : j <= i
             IN  SubSeq(s, lo, hi)

\* s.startswith(p)
StartsWith(s, p) == Len(s) >= Len(p) /\ SubSeq(s, 1, Len(p)) = p

\* p in s
Contains(s, p) ==
    \E i \in 1..(Len(s) - Len(p) + 1) : SubSeq(s, i, i + Len(p) - 1) = p

\* bool(s) of a string
Truthy(s) == Len(s) > 0

RECURSIVE Words(_)
Words(n) == IF n = 0 THEN <<>>
            ELSE IF n = 1 THEN <<"a">>
            ELSE Words(n - 1) \o <<" ", "a">>

RECURSIVE Pad(_)
Pad(k) == IF k = 0 THEN <<>> ELSE <<" ">> \o Pad(k - 1)

\* The texts a user, a transcript or a document can hold: up to MaxPad leading
\* blanks, then a few words or a number of words at one of the thresholds.
WordCounts == (0..MaxSmall) \cup {MinWordsHF - 1, MinWordsHF,
                                  MinWordsGemini - 1, MinWordsGemini}

Texts == {Pad(k) \o Words(n) : k \in 0..MaxPad, n \in WordCounts}

\* Python's None, for a summary
None == <<"None">>

\* ------------------------------------------------------------- the messages
MsgHFFailed == <<"Hugging Face summarization failed. Check API key or input length.">>
MsgGeminiFailed == <<"Gemini summarization failed. Check API key or input.">>
MsgBothFailed == <<"Both Hugging Face and Gemini summarization failed.">>
MsgEnterText == <<"Please enter some text.">>
MsgNoExtract == <<"Could not extract text from the document.">>
DeepgramErrorPrefix == <<"Deepgram error">>
DeepgramError == DeepgramErrorPrefix \o <<":", " ", "e">>
MsgGeminiUnconfigured == <<"Gemini API not configured. Cannot summarize.">>
MsgTooShort == <<"Text is too short to summarize effectively.">>
GeminiTag == <<"[Gemini]", " ">>
GeminiErrorTag == <<"[Gemini ERROR]", " ", "e">>
MsgDeepgramUnconfigured == <<"Deepgram API not configured. Cannot transcribe audio.">>
MsgAudioNotFound == <<"Audio file not found at the specified path.">>
MsgNoSpeech == <<"No speech detected in audio.">>
MsgDocNotFound == <<"Document file not found at the specified path.">>
MsgUnsupported == <<"Unsupported document type. Please use PDF, DOCX, or TXT.">>
ReadErrorMark == <<"X Error">>
ReadError(kind) == ReadErrorMark \o <<" ", "reading", " ", kind, ":", " ", "e">>

\* What the remote services can answer.
HFSummaryTexts == {<<"h">>, <<>>, None}
GeminiTexts == {<<"g">>, <<>>}

ModelChoices == {"Auto", "Hugging Face", "Gemini"}

VARIABLES
    program,            \* "app" (app.py) or "cli" (text_summariser.py)
    HF_API_KEY, GEMINI_API_KEY, DEEPGRAM_API_KEY,   \* TRUE: set in the environment
    gemini_model, dg_client,                        \* cli: TRUE when the client was built
    pc,
    input_type, model_choice, text, transcript,
    attempt, summary, used_model, ret, out, raised,
    hfInvoked, gemInvoked, hfPosts, gemCalls, dgCalls, stCalls, waited,
    hfLast, produced, dgFailed, doc

vars == <<program, HF_API_KEY, GEMINI_API_KEY, DEEPGRAM_API_KEY, gemini_model,
          dg_client, pc, input_type, model_choice, text, transcript, attempt,
          summary, used_model, ret, out, raised, hfInvoked, gemInvoked, hfPosts,
          gemCalls, dgCalls, stCalls, waited, hfLast, produced, dgFailed, doc>>

env == <<program, HF_API_KEY, GEMINI_API_KEY, DEEPGRAM_API_KEY, gemini_model, dg_client>>

NoProduced == [by |-> "None", text |-> None]
NoDoc == [kind |-> "none", readFailed |-> FALSE]

\* The per-request state before a request is handled.
Fresh ==
    /\ input_type = "none" /\ model_choice = "none"
    /\ text = <<>> /\ transcript = <<>>
    /\ attempt = 0 /\ summary = None /\ used_model = "None"
    /\ ret = <<>> /\ out = <<>> /\ raised = FALSE
    /\ hfInvoked = 0 /\ gemInvoked = 0 /\ hfPosts = 0 /\ gemCalls = 0
    /\ dgCalls = 0 /\ stCalls = 0 /\ waited = 0
    /\ hfLast = "none" /\ produced = NoProduced /\ dgFailed = FALSE
    /\ doc = NoDoc

Init ==
    /\ program \in {"app", "cli"}
    /\ HF_API_KEY \in BOOLEAN
    /\ GEMINI_API_KEY \in BOOLEAN
    /\ DEEPGRAM_API_KEY \in BOOLEAN
    \* text_summariser.py builds its clients at import; a client exists only
    \* with its key, and building it can fail.
    /\ gemini_model \in (IF program = "cli" /\ GEMINI_API_KEY THEN BOOLEAN ELSE {FALSE})
    /\ dg_client \in (IF program = "cli" /\ DEEPGRAM_API_KEY THEN BOOLEAN ELSE {FALSE})
    /\ pc = "idle"
    /\ Fresh

\* The per-request state at the start of a request (a Streamlit rerun on a
\* button press; one turn of the command-line loop).
Begin(it, mc, t) ==
    /\ input_type' = it /\ model_choice' = mc
    /\ text' = t /\ transcript' = <<>>
    /\ attempt' = 0 /\ summary' = None /\ used_model' = "None"
    /\ ret' = <<>> /\ out' = <<>> /\ raised' = FALSE
    /\ hfInvoked' = 0 /\ gemInvoked' = 0 /\ hfPosts' = 0 /\ gemCalls' = 0
    /\ dgCalls' = 0 /\ stCalls' = 0 /\ waited' = 0
    /\ hfLast' = "none" /\ produced' = NoProduced /\ dgFailed' = FALSE
    /\ doc' = NoDoc

req == <<input_type, model_choice, text>>
locals == <<attempt, summary, used_model>>
counters == <<hfInvoked, gemInvoked, hfPosts, gemCalls, dgCalls, stCalls, waited>>
ghosts == <<hfLast, produced, dgFailed, doc>>

\* =================================================================== app.py
\* ---- the sidebar choices and the button of one branch
AppSubmit ==
    /\ program = "app" /\ pc = "idle"
    /\ \E it \in {"Text", "Audio", "Document"}, mc \in ModelChoices, t \in Texts :
          /\ it # "Text" => t = <<>>
          /\ Begin(it, mc, t)
          /\ pc' = CASE it = "Text" -> "text_branch"
                     [] it = "Audio" -> "dg"
                     [] OTHER -> "doc_branch"
    /\ UNCHANGED env

\* ---- TEXT branch
AppTextBranch ==
    /\ pc = "text_branch"
    /\ IF Truthy(Strip(text))
       THEN pc' = "st_call" /\ out' = out
       ELSE pc' = "idle" /\ out' = MsgEnterText
    /\ UNCHANGED <<env, req, transcript, locals, ret, raised, counters, ghosts>>

\* ---- summarize_text: entry and dispatch on model_choice
FirstProvider(mc) == IF mc = "Gemini" THEN "gem" ELSE "hf"

SummarizeTextCall ==
    /\ pc = "st_call"
    /\ stCalls' = stCalls + 1
    /\ pc' = FirstProvider(model_choice)
    /\ UNCHANGED <<env, req, transcript, locals, ret, out, raised, hfInvoked,
                   gemInvoked, hfPosts, gemCalls, dgCalls, waited, ghosts>>

\* ---- summarize_with_hf
HFTooShort(t) == WordCount(t) < MinWordsHF

HFEnter ==
    /\ pc = "hf"
    /\ hfInvoked' = hfInvoked + 1
    /\ attempt' = 0
    /\ IF HFTooShort(text)
       THEN summary' = None /\ used_model' = "None" /\ pc' = "hf_ret"
       ELSE UNCHANGED <<summary, used_model>> /\ pc' = "hf_loop"
    /\ UNCHANGED <<env, req, transcript, ret, out, raised, gemInvoked, hfPosts,
                   gemCalls, dgCalls, stCalls, waited, ghosts>>

\* mutant of HFMoreAttempts: the loop stops one attempt early
HFMoreAttemptsOffByOne(a) == a < retries - 1

HFMoreAttempts(a) == a < retries

HFId == "Hugging Face"

\* requests.post answers 200 and the body holds summary_text (a text, or
\* JSON null); hfLast records how the last POST ended
HFAttemptOk ==
    /\ pc = "hf_loop" /\ HFMoreAttempts(attempt)
    /\ HF_API_KEY
    /\ hfPosts' = hfPosts + 1
    /\ \E s \in HFSummaryTexts :
          /\ summary' = s
          /\ produced' = [by |-> HFId, text |-> s]
          /\ hfLast' = IF s = None THEN "null" ELSE "ok"
    /\ used_model' = HFId
    /\ pc' = "hf_ret"
    /\ UNCHANGED <<env, req, transcript, attempt, ret, out, raised, hfInvoked,
                   gemInvoked, gemCalls, dgCalls, stCalls, waited, dgFailed, doc>>

\* requests.post raises, answers another status, or answers 200 with a body
\* that response.json()[0]['summary_text'] cannot read
HFAttemptFails ==
    /\ pc = "hf_loop" /\ HFMoreAttempts(attempt)
    /\ hfPosts' = hfPosts + 1
    /\ hfLast' \in {"status", "exception", "malformed"}
    /\ pc' = "hf_sleep"
    /\ UNCHANGED <<env, req, transcript, locals, ret, out, raised, hfInvoked,
                   gemInvoked, gemCalls, dgCalls, stCalls, waited, produced,
                   dgFailed, doc>>

\* time.sleep(delay), then the next turn of the for loop
HFSleep ==
    /\ pc = "hf_sleep"
    /\ waited' = waited + delay
    /\ attempt' = attempt + 1
    /\ pc' = "hf_loop"
    /\ UNCHANGED <<env, req, transcript, summary, used_model, ret, out, raised,
                   hfInvoked, gemInvoked, hfPosts, gemCalls, dgCalls, stCalls,
                   ghosts>>

\* the for loop is over: return None, None
HFExhausted ==
    /\ pc = "hf_loop" /\ ~HFMoreAttempts(attempt)
    /\ summary' = None /\ used_model' = "None"
    /\ pc' = "hf_ret"
    /\ UNCHANGED <<env, req, transcript, attempt, ret, out, raised, counters, ghosts>>

\* ---- summarize_text after summarize_with_hf returned
Result(s, m, ok) == [summary |-> s, model |-> m, ok |-> ok]

\* mutants of FallsBack: Gemini is tried whatever Hugging Face returned;
\* Gemini is tried after a failure whatever the choice
FallsBackAlways(mc, s) == mc = "Auto"
FallsBackAnyChoice(mc, s) == s = None

FallsBack(mc, s) == mc = "Auto" /\ s = None

HFResult(s, m) == IF s = None THEN Result(MsgHFFailed, "Hugging Face", FALSE)
                  ELSE Result(s, m, TRUE)

HFReturn ==
    /\ pc = "hf_ret"
    /\ IF FallsBack(model_choice, summary)
       THEN pc' = "gem" /\ ret' = ret
       ELSE pc' = "idle" /\ ret' = <<HFResult(summary, used_model)>>
    /\ UNCHANGED <<env, req, transcript, locals, out, raised, counters, ghosts>>

\* ---- summarize_with_gemini
\* the import, genai.configure or GenerativeModel raises
GeminiSetupRaises ==
    /\ pc = "gem"
    /\ gemInvoked' = gemInvoked + 1
    /\ summary' = None /\ used_model' = "None"
    /\ pc' = "gem_ret"
    /\ UNCHANGED <<env, req, transcript, attempt, ret, out, raised, hfInvoked,
                   hfPosts, gemCalls, dgCalls, stCalls, waited, ghosts>>

\* mutant of GeminiId: the adapter returns the other adapter's name
GeminiIdCopied == "Hugging Face"

GeminiId == "Gemini"

\* model.generate_content answers
GeminiCallOk ==
    /\ pc = "gem" /\ GEMINI_API_KEY
    /\ gemInvoked' = gemInvoked + 1
    /\ gemCalls' = gemCalls + 1
    /\ \E s \in GeminiTexts :
          /\ summary' = s
          /\ produced' = [by |-> "Gemini", text |-> s]
    /\ used_model' = GeminiId
    /\ pc' = "gem_ret"
    /\ UNCHANGED <<env, req, transcript, attempt, ret, out, raised, hfInvoked,
                   hfPosts, dgCalls, stCalls, waited, hfLast, dgFailed, doc>>

\* model.generate_content raises
GeminiCallRaises ==
    /\ pc = "gem"
    /\ gemInvoked' = gemInvoked + 1
    /\ gemCalls' = gemCalls + 1
    /\ summary' = None /\ used_model' = "None"
    /\ pc' = "gem_ret"
    /\ UNCHANGED <<env, req, transcript, attempt, ret, out, raised, hfInvoked,
                   hfPosts, dgCalls, stCalls, waited, ghosts>>

\* ---- summarize_text after summarize_with_gemini returned
GeminiResult(mc, s, m) ==
    IF s # None THEN Result(s, m, TRUE)
    ELSE IF mc = "Gemini" THEN Result(MsgGeminiFailed, "Gemini", FALSE)
    ELSE Result(MsgBothFailed, "None", FALSE)

GeminiReturn ==
    /\ pc = "gem_ret"
    /\ ret' = <<GeminiResult(model_choice, summary, used_model)>>
    /\ pc' = "idle"
    /\ UNCHANGED <<env, req, transcript, locals, out, raised, counters, ghosts>>


\* ---- transcribe_audio
\* Speech can begin with the very words "Deepgram error".
Transcripts == Texts \cup {DeepgramErrorPrefix \o <<" ">> \o Words(MinWordsHF)}

\* DeepgramClient(...) or open(...) raises before anything is sent
AppTranscribeSetupRaises ==
    /\ pc = "dg"
    /\ transcript' = DeepgramError
    /\ dgFailed' = TRUE
    /\ pc' = "audio_branch"
    /\ UNCHANGED <<env, req, locals, ret, out, raised, counters, hfLast, produced, doc>>

\* transcribe_file answers
AppTranscribeOk ==
    /\ pc = "dg" /\ DEEPGRAM_API_KEY
    /\ dgCalls' = dgCalls + 1
    /\ transcript' \in Transcripts
    /\ pc' = "audio_branch"
    /\ UNCHANGED <<env, req, locals, ret, out, raised, hfInvoked, gemInvoked,
                   hfPosts, gemCalls, stCalls, waited, ghosts>>

\* transcribe_file raises, or its answer lacks the transcript
AppTranscribeRaises ==
    /\ pc = "dg"
    /\ dgCalls' = dgCalls + 1
    /\ transcript' = DeepgramError
    /\ dgFailed' = TRUE
    /\ pc' = "audio_branch"
    /\ UNCHANGED <<env, req, locals, ret, out, raised, hfInvoked, gemInvoked,
                   hfPosts, gemCalls, stCalls, waited, hfLast, produced, doc>>

\* ---- AUDIO branch, after transcribe_audio returned
AudioSummarizes(tr) == Truthy(tr) /\ ~StartsWith(tr, DeepgramErrorPrefix)

AppAudioBranch ==
    /\ pc = "audio_branch"
    /\ IF AudioSummarizes(transcript)
       THEN text' = transcript /\ pc' = "st_call"
       ELSE text' = text /\ pc' = "idle"
    /\ UNCHANGED <<env, input_type, model_choice, transcript, locals, ret, out,
                   raised, counters, ghosts>>

\* ---- DOCUMENT branch: read_pdf / read_docx / read_txt have no try
MimeTypes == {"application/pdf",
              "application/vnd.openxmlformats-officedocument.wordprocessingml.document",
              "text/plain", "application/octet-stream"}

AppRecognized(mime) == mime # "application/octet-stream"

\* the reader raises (fitz.open, docx.Document, decode): the run ends there
AppDocReadRaises ==
    /\ pc = "doc_branch"
    /\ \E mime \in MimeTypes :
          /\ AppRecognized(mime)
          /\ doc' = [kind |-> mime, readFailed |-> TRUE]
    /\ raised' = TRUE
    /\ pc' = "idle"
    /\ UNCHANGED <<env, req, transcript, locals, ret, out, counters, hfLast,
                   produced, dgFailed>>

AppDocRead ==
    /\ pc = "doc_branch"
    /\ \E mime \in MimeTypes, t \in Texts :
          /\ ~AppRecognized(mime) => t = <<>>
          /\ doc' = [kind |-> mime, readFailed |-> FALSE]
          /\ IF Truthy(Strip(t))
             THEN text' = t /\ pc' = "st_call" /\ out' = out
             ELSE text' = text /\ pc' = "idle" /\ out' = MsgNoExtract
    /\ UNCHANGED <<env, input_type, model_choice, transcript, locals, ret, raised,
                   counters, hfLast, produced, dgFailed>>

\* ========================================================= text_summariser.py
CliSubmit ==
    /\ program = "cli" /\ pc = "idle"
    /\ \E it \in {"Text", "Audio", "Document"}, t \in Texts :
          /\ it # "Text" => t = <<>>
          /\ Begin(it, "none", t)
          /\ pc' = CASE it = "Text" -> "cli_text"
                     [] it = "Audio" -> "cli_audio"
                     [] OTHER -> "cli_doc"
    /\ UNCHANGED env

\* ---- summarize_text: what it returns and how many generate_content calls
\* it makes, for each way the service can answer
CliTooShort(t) == ~Truthy(Strip(t)) \/ WordCount(t) < MinWordsGemini

CliSummarize(t) ==
    IF ~gemini_model THEN {[out |-> MsgGeminiUnconfigured, calls |-> 0]}
    ELSE IF CliTooShort(t) THEN {[out |-> MsgTooShort, calls |-> 0]}
    ELSE {[out |-> GeminiTag \o s, calls |-> 1] : s \in GeminiTexts}
         \cup {[out |-> GeminiErrorTag, calls |-> 1]}

CliText ==
    /\ pc = "cli_text"
    /\ \E r \in CliSummarize(text) :
          /\ out' = r.out
          /\ gemCalls' = gemCalls + r.calls
    /\ stCalls' = stCalls + 1
    /\ pc' = "idle"
    /\ UNCHANGED <<env, req, transcript, locals, ret, raised, hfInvoked,
                   gemInvoked, hfPosts, dgCalls, waited, ghosts>>

\* ---- transcribe_and_summarize
CliAudioRefused ==
    /\ pc = "cli_audio"
    /\ \E exists \in BOOLEAN :
          /\ ~dg_client \/ ~exists
          /\ out' = IF ~dg_client THEN MsgDeepgramUnconfigured ELSE MsgAudioNotFound
    /\ pc' = "idle"
    /\ UNCHANGED <<env, req, transcript, locals, ret, raised, counters, ghosts>>

CliAudioRaises ==
    /\ pc = "cli_audio" /\ dg_client
    /\ dgCalls' = dgCalls + 1
    /\ dgFailed' = TRUE
    /\ out' = DeepgramError
    /\ pc' = "idle"
    /\ UNCHANGED <<env, req, transcript, locals, ret, raised, hfInvoked,
                   gemInvoked, hfPosts, gemCalls, stCalls, waited, hfLast,
                   produced, doc>>

CliNoSpeech(tr) == ~Truthy(Strip(tr))

CliAudio ==
    /\ pc = "cli_audio" /\ dg_client
    /\ dgCalls' = dgCalls + 1
    /\ \E tr \in Transcripts :
          /\ transcript' = tr
          /\ IF CliNoSpeech(tr)
             THEN /\ out' = MsgNoSpeech
                  /\ UNCHANGED <<text, gemCalls, stCalls>>
             ELSE /\ text' = tr
                  /\ stCalls' = stCalls + 1
                  /\ \E r \in CliSummarize(tr) :
                        /\ out' = r.out
                        /\ gemCalls' = gemCalls + r.calls
    /\ pc' = "idle"
    /\ UNCHANGED <<env, input_type, model_choice, locals, ret, raised, hfInvoked,
                   gemInvoked, hfPosts, waited, ghosts>>

\* ---- read_and_summarize_doc
Extensions == {".pdf", ".docx", ".txt", ".md"}

CliRecognized(ext) == ext \in {".pdf", ".docx", ".txt"}

CliReaderKind(ext) == CASE ext = ".pdf" -> "PDF"
                        [] ext = ".docx" -> "DOCX"
                        [] OTHER -> "TXT"

CliDocRefused ==
    /\ pc = "cli_doc"
    /\ \E exists \in BOOLEAN, ext \in Extensions :
          /\ ~exists \/ ~CliRecognized(ext)
          /\ doc' = [kind |-> ext, readFailed |-> FALSE]
          /\ out' = IF ~exists THEN MsgDocNotFound ELSE MsgUnsupported
    /\ pc' = "idle"
    /\ UNCHANGED <<env, req, transcript, locals, ret, raised, counters, hfLast,
                   produced, dgFailed>>

\* the reader's except clause returns the error string
CliDocReadFails ==
    /\ pc = "cli_doc"
    /\ \E ext \in Extensions :
          /\ CliRecognized(ext)
          /\ doc' = [kind |-> ext, readFailed |-> TRUE]
          /\ LET t == ReadError(CliReaderKind(ext))
             IN  IF Contains(t, ReadErrorMark)
                 THEN /\ out' = t
                      /\ UNCHANGED <<text, gemCalls, stCalls>>
                 ELSE /\ text' = t
                      /\ stCalls' = stCalls + 1
                      /\ \E r \in CliSummarize(t) :
                            /\ out' = r.out
                            /\ gemCalls' = gemCalls + r.calls
    /\ pc' = "idle"
    /\ UNCHANGED <<env, input_type, model_choice, transcript, locals, ret, raised,
                   hfInvoked, gemInvoked, hfPosts, dgCalls, waited, hfLast,
                   produced, dgFailed>>

CliDocRead ==
    /\ pc = "cli_doc"
    /\ \E ext \in Extensions, t \in Texts :
          /\ CliRecognized(ext)
          /\ doc' = [kind |-> ext, readFailed |-> FALSE]
          /\ IF Contains(t, ReadErrorMark)
             THEN /\ out' = t
                  /\ UNCHANGED <<text, gemCalls, stCalls>>
             ELSE IF ~Truthy(Strip(t))
             THEN /\ out' = MsgNoExtract
                  /\ UNCHANGED <<text, gemCalls, stCalls>>
             ELSE /\ text' = t
                  /\ stCalls' = stCalls + 1
                  /\ \E r \in CliSummarize(t) :
                        /\ out' = r.out
                        /\ gemCalls' = gemCalls + r.calls
    /\ pc' = "idle"
    /\ UNCHANGED <<env, input_type, model_choice, transcript, locals, ret, raised,
                   hfInvoked, gemInvoked, hfPosts, dgCalls, waited, hfLast,
                   produced, dgFailed>>

\* ============================================================ specification
Next ==
    \/ AppSubmit \/ AppTextBranch \/ SummarizeTextCall
    \/ HFEnter \/ HFAttemptOk \/ HFAttemptFails \/ HFSleep \/ HFExhausted \/ HFReturn
    \/ GeminiSetupRaises \/ GeminiCallOk \/ GeminiCallRaises \/ GeminiReturn
    \/ AppTranscribeSetupRaises \/ AppTranscribeOk \/ AppTranscribeRaises
    \/ AppAudioBranch \/ AppDocReadRaises \/ AppDocRead
    \/ CliSubmit \/ CliText \/ CliAudioRefused \/ CliAudioRaises \/ CliAudio
    \/ CliDocRefused \/ CliDocReadFails \/ CliDocRead

Spec == Init /\ [][Next]_vars


\* ==================================================================== claims
AppReturned == program = "app" /\ pc = "idle" /\ ret # <<>>
HFRunning == pc \in {"hf", "hf_loop", "hf_sleep", "hf_ret"}
\* the last POST of summarize_with_hf ended in the else or the except branch
HFLastFailed == hfLast \in {"status", "exception", "malformed"}
ErrorMessages == {MsgHFFailed, MsgGeminiFailed, MsgBothFailed}

\* C1 (as claimed): when summarize_text is called with fewer than MinWordsHF
\* words, under any model choice, no Hugging Face POST and no Gemini
\* generate_content call is made and the result is a failure whose provider
\* is unset or the chosen one.
C1_ShortTextNoCall ==
    (program = "app" /\ stCalls > 0 /\ WordCount(text) < MinWordsHF) =>
        /\ hfPosts = 0
        /\ gemCalls = 0
        /\ ret # <<>> => (~ret[1].ok /\ ret[1].model \in {"None", model_choice})

\* C2: under Auto, Gemini is invoked only once summarize_with_hf has returned
\* without a summary (too short a text, a null summary, or all its attempts
\* failed), and after a Hugging Face attempt succeeded Gemini is not invoked.
C2_AutoOrder ==
    (program = "app" /\ model_choice = "Auto") =>
        /\ gemInvoked > 0 =>
              /\ hfInvoked = 1
              /\ ~HFRunning
              /\ hfLast # "ok"
              /\ HFTooShort(text) \/ hfLast = "null"
                    \/ (HFLastFailed /\ hfPosts = retries)
        /\ hfLast = "ok" => (gemInvoked = 0 /\ gemCalls = 0)
        /\ HFRunning => (gemInvoked = 0 /\ gemCalls = 0)

C2_Witness ==
    /\ AppReturned /\ model_choice = "Auto"
    /\ hfPosts = 2 /\ hfLast = "ok" /\ ret[1].ok /\ gemInvoked = 0


C4_ResultInvariant ==
    AppReturned =>
        IF ret[1].ok
        THEN /\ ret[1].model \in {"Hugging Face", "Gemini"}
             /\ ret[1].summary # None
             /\ Truthy(ret[1].summary)
        ELSE /\ ret[1].summary \in ErrorMessages
             /\ ret[1].model = (IF model_choice = "Auto" THEN "None" ELSE model_choice)

\* C5: with a named provider only that adapter is invoked, the other one is
\* never invoked and never called, and a failure names the chosen provider.
C5_NamedProviderOnly ==
    program = "app" =>
        /\ model_choice = "Hugging Face" =>
              /\ gemInvoked = 0 /\ gemCalls = 0
              /\ pc \notin {"gem", "gem_ret"}
              /\ (ret # <<>> /\ ~ret[1].ok) => ret[1].model = "Hugging Face"
        /\ model_choice = "Gemini" =>
              /\ hfInvoked = 0 /\ hfPosts = 0
              /\ ~HFRunning
              /\ (ret # <<>> /\ ~ret[1].ok) => ret[1].model = "Gemini"

C5_Witness ==
    /\ AppReturned /\ model_choice = "Hugging Face"
    /\ hfInvoked = 1 /\ hfPosts = retries /\ ~ret[1].ok
    /\ ret[1].summary = MsgHFFailed

\* C6: a returned success names the provider whose call produced the
\* returned text; under Auto, when every Hugging Face attempt failed and
\* Gemini answered, the result is Gemini's text under Gemini's name.
C6_ProviderAttribution ==
    AppReturned =>
        /\ ret[1].ok => (ret[1].model = produced.by /\ ret[1].summary = produced.text)
        /\ (model_choice = "Auto" /\ hfPosts = retries /\ HFLastFailed
               /\ produced.by = "Gemini")
              => (ret[1].ok /\ ret[1].model = "Gemini"
                    /\ ret[1].summary = produced.text)
        /\ ret[1].ok => (ret[1].model = "Gemini") = (gemCalls = 1)

C6_Witness ==
    /\ AppReturned /\ model_choice = "Auto"
    /\ hfPosts = retries /\ HFLastFailed /\ gemCalls = 1
    /\ ret[1] = Result(<<"g">>, "Gemini", TRUE)

\* C7 (as claimed): an adapter whose key is absent makes no outbound call, in
\* either entry point.
C7_NoKeyNoCall ==
    /\ ~HF_API_KEY => hfPosts = 0
    /\ ~GEMINI_API_KEY => gemCalls = 0
    /\ ~DEEPGRAM_API_KEY => dgCalls = 0

\* C8 (as claimed): after a transcription that did not fail, a transcript
\* that is empty or only whitespace leads to no summarization and is not
\* reported as a Deepgram error; summarization follows a transcription only
\* when the transcript is non-blank and the transcription did not fail.
C8_EmptyTranscriptSkips ==
    input_type = "Audio" =>
        /\ (dgCalls > 0 /\ ~dgFailed /\ ~Truthy(Strip(transcript))) =>
              /\ stCalls = 0 /\ hfInvoked = 0 /\ gemInvoked = 0
              /\ hfPosts = 0 /\ gemCalls = 0
              /\ ~StartsWith(out, DeepgramErrorPrefix)
              /\ ~StartsWith(transcript, DeepgramErrorPrefix)
        /\ stCalls > 0 => (Truthy(Strip(transcript)) /\ ~dgFailed)

\* C9 (as claimed): in both entry points a read failure on a recognized
\* document type gives an error string and no exception, an unrecognized
\* type gives an outcome that is no read error, and neither calls a provider.
C9_ReadFailureIsErrorString ==
    (input_type = "Document" /\ pc = "idle" /\ doc.kind # "none") =>
        /\ doc.readFailed =>
              /\ ~raised
              /\ Contains(out, ReadErrorMark)
              /\ stCalls = 0 /\ hfPosts = 0 /\ gemCalls = 0
        /\ (~doc.readFailed /\ ~AppRecognized(doc.kind) /\ ~CliRecognized(doc.kind)) =>
              /\ ~raised
              /\ ~Contains(out, ReadErrorMark)
              /\ stCalls = 0 /\ hfPosts = 0 /\ gemCalls = 0

\* C10 (as claimed): summarize_with_hf pauses only between two attempts: when
\* it returns after retries failed attempts it has paused retries - 1 times.
C10_PauseOnlyBetweenAttempts ==
    (program = "app" /\ pc = "hf_ret" /\ hfPosts = retries /\ HFLastFailed)
        => waited = (retries - 1) * delay

====
